---- MODULE Spec2Model ----
(***************************************************************************)
(* The fiber reconciler of src/fiber/fiber.go as a state machine: the      *)
(* package-level globals, the fiber heap, the host document tree behind    *)
(* syscall/js, and one action per entry point or host callback.            *)
(***************************************************************************)
EXTENDS Integers, Sequences, FiniteSets, TLC

\* ------------------------------------------------------------------ bounds
MaxBudget == 2      \* largest number of units a deadline allows before a yield
MaxPasses == 3      \* passes an environment event may still start
MaxVal == 2         \* largest value the environment hands to a setter
MaxClicks == 3      \* clicks on the counter of Example2

\* ------------------------------------------------------- program constants
Nil == 0            \* Go nil pointer / undefined js.Value
NoVal == -1         \* a props key that is absent from the map
NoYield == 99       \* a deadline whose timeRemaining never drops below 1
FirstFunc == 100    \* state values from here on are js.Func callbacks

VARIABLES
    fibers,          \* the heap of Fiber structs, addressed by index
    wipRoot, currentRoot, nextUnitOfWork, deletions, wipFiber,
    pending,         \* idle callbacks requested and not yet delivered
    hostChildren,    \* host document: handle -> ordered child handles
    hostProps,       \* host document: handle -> properties and listener
    released,        \* the js.Func callbacks on which Release was called
    panicked,        \* a Go panic escaped the running handler
    rendered,        \* whether main has called render
    app,             \* the element main hands to render
    passes,          \* passes started so far
    pass,            \* history: what the pass in progress has done
    commitLog,       \* history: host operations and effects of the last commit
    effectCalls,     \* history: every useEffect call and whether it queued
    lastReconcile,   \* history: the last reconcileChildren call
    lastSet,         \* history: the value last passed to each slot's setter
    lastCall,        \* history: the last environment call of a setter
    abandoned,       \* history: roots replaced before they were committed
    marks,           \* history: which fiber's reconciliation marked a deletion
    sets,            \* history: the value-changing setter calls since a commit
    units,           \* history: the fibers processed since a root was processed
    failed,          \* history: the fiber whose component function panicked
    commitCount,     \* history: commitRoot calls so far
    effectSet,       \* history: the last value-changing setter call of an effect
    started,         \* history: the state slots each render started with
    clicks,          \* history: clicks delivered so far
    slice            \* history: flips at every idle callback SpecLive delivers

vars == <<fibers, wipRoot, currentRoot, nextUnitOfWork, deletions, wipFiber,
          pending, hostChildren, hostProps, released, panicked, rendered, app,
          passes,
          pass, commitLog, effectCalls, lastReconcile, lastSet, lastCall,
          abandoned, marks, sets, units, failed, commitCount, effectSet,
          started, clicks, slice>>

\* The whole machine as one record, so that handlers compose as functions.
State == [fibers |-> fibers, wipRoot |-> wipRoot, currentRoot |-> currentRoot,
          nextUnitOfWork |-> nextUnitOfWork, deletions |-> deletions,
          wipFiber |-> wipFiber, pending |-> pending,
          hostChildren |-> hostChildren, hostProps |-> hostProps,
          released |-> released,
          panicked |-> panicked, passes |-> passes, pass |-> pass,
          commitLog |-> commitLog, effectCalls |-> effectCalls,
          lastReconcile |-> lastReconcile, lastSet |-> lastSet,
          abandoned |-> abandoned, marks |-> marks,
          sets |-> sets, units |-> units, failed |-> failed,
          commitCount |-> commitCount, effectSet |-> effectSet,
          started |-> started]

Apply(S) ==
    /\ fibers' = S.fibers
    /\ wipRoot' = S.wipRoot
    /\ currentRoot' = S.currentRoot
    /\ nextUnitOfWork' = S.nextUnitOfWork
    /\ deletions' = S.deletions
    /\ wipFiber' = S.wipFiber
    /\ pending' = S.pending
    /\ hostChildren' = S.hostChildren
    /\ hostProps' = S.hostProps
    /\ released' = S.released
    /\ panicked' = S.panicked
    /\ passes' = S.passes
    /\ pass' = S.pass
    /\ commitLog' = S.commitLog
    /\ effectCalls' = S.effectCalls
    /\ lastReconcile' = S.lastReconcile
    /\ lastSet' = S.lastSet
    /\ abandoned' = S.abandoned
    /\ marks' = S.marks
    /\ sets' = S.sets
    /\ units' = S.units
    /\ failed' = S.failed
    /\ commitCount' = S.commitCount
    /\ effectSet' = S.effectSet
    /\ started' = S.started

Panic(S) == [S EXCEPT !.panicked = TRUE]

\* ---------------------------------------------------------------- elements
NoCb == [kind |-> "none", fiber |-> Nil, pos |-> 0]
NoProps == [val |-> NoVal, onclick |-> NoCb, children |-> <<>>]

createElement(typ, props, children) ==
    [Type |-> typ, Props |-> [props EXCEPT !.children = children],
     Children |-> children]

Text(content) ==
    createElement("TEXT_ELEMENT", [NoProps EXCEPT !.val = content], <<>>)

\* A Go string held in an interface{}: a child that is not a *Element.
Str(content) == [str |-> content]

\* The type assertion element.(*Element) succeeds.
IsElement(e) == "Type" \in DOMAIN e

\* ------------------------------------------------------------------- hooks
NilHooks == [nil |-> TRUE, state |-> <<>>, deps |-> <<>>, effects |-> <<>>,
             effectsInitialized |-> <<>>, index |-> 0]
EmptyHooks == [NilHooks EXCEPT !.nil = FALSE]

NilDeps == [nil |-> TRUE, elems |-> <<>>]
Deps(elems) == [nil |-> FALSE, elems |-> elems]

areDepsEqual(prevDeps, newDeps) ==
    IF prevDeps.nil /\ newDeps.nil THEN TRUE
    ELSE IF prevDeps.nil \/ newDeps.nil THEN FALSE
    ELSE IF Len(prevDeps.elems) # Len(newDeps.elems) THEN FALSE
    ELSE \A i \in 1..Len(prevDeps.elems) : prevDeps.elems[i] = newDeps.elems[i]

Fiber(typeOf, props, dom, parent, alternate, effectTag) ==
    [typeOf |-> typeOf, props |-> props, hooks |-> NilHooks, parent |-> parent,
     dom |-> dom, alternate |-> alternate, child |-> Nil, sibling |-> Nil,
     effectTag |-> effectTag]

getCurrentFiber(S) == S.wipFiber

\* requestIdleCallback: one more callback the host will deliver.
requestIdleCallback(S) == [S EXCEPT !.pending = @ + 1]

NewPass == [root |-> Nil, visited |-> <<>>, invocations |-> 0, commits |-> 0,
            commitAt |-> 0, deleted |-> <<>>]

\* History: the work-in-progress root that a new pass replaces, if any.
Abandon(S) ==
    IF S.wipRoot # Nil THEN [S EXCEPT !.abandoned = @ \cup {S.wipRoot}] ELSE S

\* scheduleUpdate building the new root on the unfinished work-in-progress
\* root when there is one.
scheduleUpdateOnWip(S) ==
    IF S.currentRoot = Nil THEN Panic(S)
    ELSE LET cur == S.fibers[S.currentRoot]
             root == Fiber("ROOT", cur.props, cur.dom, Nil,
                           IF S.wipRoot # Nil THEN S.wipRoot ELSE S.currentRoot, "")
             id == Len(S.fibers) + 1
         IN requestIdleCallback(
              [Abandon(S) EXCEPT !.fibers = Append(@, root), !.wipRoot = id,
                        !.nextUnitOfWork = id, !.deletions = <<>>,
                        !.passes = @ + 1,
                        !.pass = [NewPass EXCEPT !.root = id]])

scheduleUpdate(S) ==
    IF S.currentRoot = Nil THEN Panic(S)
    ELSE LET cur == S.fibers[S.currentRoot]
             root == Fiber("ROOT", cur.props, cur.dom, Nil, S.currentRoot, "")
             id == Len(S.fibers) + 1
         IN requestIdleCallback(
              [Abandon(S) EXCEPT !.fibers = Append(@, root), !.wipRoot = id,
                        !.nextUnitOfWork = id, !.deletions = <<>>,
                        !.passes = @ + 1,
                        !.pass = [NewPass EXCEPT !.root = id]])

\* The container is host handle 1.
Container == 1

render(S, element) ==
    LET root == Fiber("ROOT", [NoProps EXCEPT !.children = <<element>>],
                      Container, Nil, S.currentRoot, "")
        id == Len(S.fibers) + 1
    IN requestIdleCallback(
         [Abandon(S) EXCEPT !.fibers = Append(@, root), !.wipRoot = id,
                   !.nextUnitOfWork = id, !.deletions = <<>>,
                   !.passes = @ + 1,
                   !.pass = [NewPass EXCEPT !.root = id]])

\* The getter closure returned by useState for (fiber, position).
InRange(S, fiber, position) ==
    /\ ~S.fibers[fiber].hooks.nil
    /\ position < Len(S.fibers[fiber].hooks.state)

getter(S, fiber, position) == S.fibers[fiber].hooks.state[position + 1]

\* History: no value-changing setter call since the commit of root `base`.
NoSets == [n |-> 0, base |-> Nil, vals |-> <<NoVal, NoVal, NoVal, NoVal>>]

\* History: one more value-changing setter call since the last commit.
recordSet(S, position, newValue) ==
    [S EXCEPT !.lastSet[position + 1] = newValue,
              !.sets = [n |-> (IF S.pass.commits > 0 THEN 0 ELSE @.n) + 1,
                        base |-> S.currentRoot,
                        vals |-> [(IF S.pass.commits > 0 THEN NoSets ELSE @).vals
                                    EXCEPT ![position + 1] = newValue]]]

\* The setter without the DeepEqual guard of lines 63 and 79.
setterUnguarded(S, fiber, position, newValue) ==
    IF ~InRange(S, fiber, position) THEN Panic(S)
    ELSE scheduleUpdate(
           [recordSet(S, position, newValue)
              EXCEPT !.fibers[fiber].hooks.state[position + 1] = newValue])

\* The setter when the state slice of a fiber is the slice of its alternate:
\* the value stored is seen through both.
setterShared(S, fiber, position, newValue) ==
    IF ~InRange(S, fiber, position) THEN Panic(S)
    ELSE IF S.fibers[fiber].hooks.state[position + 1] # newValue
         THEN scheduleUpdate(
                [recordSet(S, position, newValue)
                   EXCEPT !.fibers = [g \in DOMAIN @ |->
                      IF g = fiber \/ (g = @[fiber].alternate /\ ~@[g].hooks.nil
                                                     /\ position < Len(@[g].hooks.state))
                      THEN [@[g] EXCEPT !.hooks.state[position + 1] = newValue]
                      ELSE @[g]]])
         ELSE [S EXCEPT !.lastSet[position + 1] = newValue]

\* The setter closure returned by useState for (fiber, position).
setter(S, fiber, position, newValue) ==
    IF ~InRange(S, fiber, position) THEN Panic(S)
    ELSE IF S.fibers[fiber].hooks.state[position + 1] # newValue
         THEN scheduleUpdate(
                [recordSet(S, position, newValue)
                   EXCEPT !.fibers[fiber].hooks.state[position + 1] = newValue])
         ELSE [S EXCEPT !.lastSet[position + 1] = newValue]

\* Lines 51-85 on the hook store h of the current fiber.
\* useState that stores the initial value on every render.
useStateHooksReinit(h, initialValue) ==
    IF Len(h.state) > h.index
    THEN [h EXCEPT !.index = @ + 1, !.state[h.index + 1] = initialValue]
    ELSE [h EXCEPT !.index = @ + 1, !.state = Append(@, initialValue)]

useStateHooks(h, initialValue) ==
    IF Len(h.state) > h.index THEN [h EXCEPT !.index = @ + 1]
    ELSE [h EXCEPT !.index = @ + 1, !.state = Append(@, initialValue)]

\* Lines 46-49 and 98-105: the hook store, created when the fiber has none.
hooksOf(S, cf) ==
    IF S.fibers[cf].hooks.nil THEN EmptyHooks ELSE S.fibers[cf].hooks

useState(S, initialValue) ==
    [S EXCEPT !.fibers[getCurrentFiber(S)].hooks =
                 useStateHooks(hooksOf(S, getCurrentFiber(S)), initialValue)]

\* Lines 111-114: grow effectsInitialized (and deps with it) up to position.
RECURSIVE Extend(_, _)
Extend(h, position) ==
    IF Len(h.effectsInitialized) <= position
    THEN Extend([h EXCEPT !.effectsInitialized = Append(@, FALSE),
                          !.deps = Append(@, NilDeps)], position)
    ELSE h

\* Lines 116-130, on the hook store h as extended by lines 111-114.
shouldRunEffect(h, position, deps) ==
    LET isFirstRun == ~h.effectsInitialized[position + 1]
    IN IF isFirstRun THEN TRUE
       ELSE IF deps.nil THEN TRUE
       ELSE ~areDepsEqual(h.deps[position + 1], deps)

\* Lines 107-140 on the hook store h of the current fiber cf.
useEffectHooks(h, cf, effect, deps) ==
    LET position == h.index
        run == shouldRunEffect(Extend(h, position), position, deps)
    IN [Extend(h, position) EXCEPT
          !.index = @ + 1,
          !.effectsInitialized[position + 1] = TRUE,
          !.effects = IF run
                      THEN Append(@, [effect EXCEPT !.fiber = cf, !.pos = position])
                      ELSE @,
          !.deps[position + 1] = deps]

useEffect(S, effect, deps) ==
    LET cf == getCurrentFiber(S)
        position == hooksOf(S, cf).index
    IN [S EXCEPT !.fibers[cf].hooks = useEffectHooks(hooksOf(S, cf), cf, effect, deps),
                 !.effectCalls = @ \cup
                    {[fiber |-> cf, pos |-> position, deps |-> deps,
                      queued |-> shouldRunEffect(Extend(hooksOf(S, cf), position),
                                                 position, deps)]}]

\* -------------------------------------------------------------- components
\* The function components of the application.  Each is a sequence of hook
\* calls followed by the element it returns; `show` is the cursor position of
\* the useState whose value the element displays and whose setter its
\* onclick callback calls with getter() + 1.
StateHook(init) == [k |-> "state", init |-> init, deps |-> "none", act |-> "none"]
EffectHook(deps, act) == [k |-> "effect", init |-> 0, deps |-> deps, act |-> act]

Components ==
    [Counter  |-> [hooks |-> <<StateHook(0)>>, show |-> 0,
                   layout |-> "button", clamp |-> FALSE],
     OnMount  |-> [hooks |-> <<StateHook(0), EffectHook("empty", "log")>>,
                   show |-> 0, layout |-> "button", clamp |-> FALSE],
     OnChange |-> [hooks |-> <<StateHook(0), EffectHook("show", "log")>>,
                   show |-> 0, layout |-> "button", clamp |-> FALSE],
     Always   |-> [hooks |-> <<StateHook(0), EffectHook("nil", "log")>>,
                   show |-> 0, layout |-> "button", clamp |-> FALSE],
     Mixed    |-> [hooks |-> <<StateHook(0), EffectHook("empty", "log"),
                               StateHook(1), StateHook(2)>>,
                   show |-> 2, layout |-> "button", clamp |-> FALSE],
     Clamp    |-> [hooks |-> <<StateHook(1)>>, show |-> 0,
                   layout |-> "button", clamp |-> TRUE],
     List     |-> [hooks |-> <<StateHook(0)>>, show |-> 0,
                   layout |-> "list", clamp |-> FALSE],
     ClampList |-> [hooks |-> <<StateHook(0)>>, show |-> 0,
                    layout |-> "list", clamp |-> TRUE],
     Label    |-> [hooks |-> <<StateHook(0)>>, show |-> 0,
                   layout |-> "label", clamp |-> FALSE],
     Items    |-> [hooks |-> <<StateHook(0)>>, show |-> 0,
                   layout |-> "items", clamp |-> FALSE],
     Handler  |-> [hooks |-> <<StateHook(FirstFunc)>>, show |-> 0,
                   layout |-> "button", clamp |-> FALSE],
     Switch   |-> [hooks |-> <<StateHook(0)>>, show |-> 0,
                   layout |-> "switch", clamp |-> FALSE],
     Fragile  |-> [hooks |-> <<StateHook(0)>>, show |-> 0,
                   layout |-> "button", clamp |-> FALSE],
     Setting  |-> [hooks |-> <<StateHook(0), EffectHook("empty", "set")>>,
                   show |-> 0, layout |-> "button", clamp |-> FALSE],
     Pair     |-> [hooks |-> <<StateHook(0), StateHook(1)>>,
                   show |-> 1, layout |-> "button", clamp |-> FALSE],
     Swap     |-> [hooks |-> <<StateHook(0)>>, show |-> 0,
                   layout |-> "swap", clamp |-> FALSE],
     Replace  |-> [hooks |-> <<StateHook(0)>>, show |-> 0,
                   layout |-> "replace", clamp |-> FALSE],
     EffectFirst |-> [hooks |-> <<EffectHook("empty", "log"), StateHook(0)>>,
                      show |-> 1, layout |-> "button", clamp |-> FALSE],
     ClampFirst |-> [hooks |-> <<StateHook(2)>>, show |-> 0,
                     layout |-> "button", clamp |-> TRUE],
     Beside   |-> [hooks |-> <<StateHook(0)>>, show |-> 0,
                   layout |-> "beside", clamp |-> FALSE],
     Logger   |-> [hooks |-> <<StateHook(0), EffectHook("empty", "log"),
                               EffectHook("nil", "log")>>,
                   show |-> 0, layout |-> "button", clamp |-> FALSE]]

FuncTypes == DOMAIN Components
IsFunc(typ) == typ \in FuncTypes

Host(tag) == createElement(tag, NoProps, <<>>)

\* The children a List shows for each value of its state.
ListItems(v) ==
    CASE v = 0 -> <<Host("span"), Host("span")>>
      [] v = 1 -> <<Host("p")>>
      [] OTHER -> <<Host("span"), Host("p"), Host("span")>>

\* A list item showing x.
Item(x) == createElement("li", [NoProps EXCEPT !.val = x], <<>>)

\* The items shown by Items: a, b, c at first, then a, c.
ItemsOf(v) ==
    IF v = 0 THEN <<Item(10), Item(11), Item(12)>> ELSE <<Item(10), Item(12)>>

\* The items shown by Replace: the first of two changes its type.
ReplaceItems(v) ==
    IF v = 0 THEN <<Host("span"), Host("span")>> ELSE <<Host("p"), Host("span")>>

Layout(c, f, v) ==
    LET inc == [kind |-> "inc", fiber |-> f, pos |-> c.show]
    IN IF c.layout = "list"
       THEN createElement("ul", [NoProps EXCEPT !.onclick = inc], ListItems(v))
       ELSE IF c.layout = "items"
       THEN createElement("ul", [NoProps EXCEPT !.onclick = inc], ItemsOf(v))
       ELSE IF c.layout = "switch"
       THEN createElement("div", [NoProps EXCEPT !.onclick = inc],
                          IF v = 0 THEN <<createElement("Handler", NoProps, <<>>)>>
                          ELSE <<Host("p")>>)
       ELSE IF c.layout = "replace"
       THEN createElement("ul", [NoProps EXCEPT !.onclick = inc], ReplaceItems(v))
       ELSE IF c.layout = "beside"
       THEN createElement("div", [NoProps EXCEPT !.onclick = inc],
                          <<createElement("Counter", NoProps, <<>>),
                            IF v = 0 THEN Host("span") ELSE Host("p")>>)
       ELSE IF c.layout = "swap"
       THEN createElement("div", [NoProps EXCEPT !.onclick = inc],
                          IF v = 0 THEN <<createElement("Counter", NoProps, <<>>)>>
                          ELSE <<createElement("Pair", NoProps, <<>>)>>)
       ELSE IF c.layout = "label"
       THEN createElement("p", [NoProps EXCEPT !.onclick = inc], <<Str(v)>>)
       ELSE createElement("button", [NoProps EXCEPT !.onclick = inc],
                          <<Text(v)>>)

DepsOf(S, f, c, h) ==
    CASE h.deps = "nil" -> NilDeps
      [] h.deps = "empty" -> Deps(<<>>)
      [] OTHER -> Deps(<<getter(S, f, c.show)>>)

RECURSIVE RunHooks(_, _, _, _)
RunHooks(S, f, c, i) ==
    IF i > Len(c.hooks) \/ S.panicked THEN S
    ELSE LET h == c.hooks[i]
         IN IF h.k = "state" THEN RunHooks(useState(S, h.init), f, c, i + 1)
            ELSE IF h.deps = "show" /\ ~InRange(S, f, c.show) THEN Panic(S)
            ELSE RunHooks(useEffect(S, [kind |-> h.act, fiber |-> f, pos |-> 0],
                                    DepsOf(S, f, c, h)), f, c, i + 1)

\* Lines 932-936: a component that calls its own setter while it renders.
clampState(S, f, c) ==
    IF c.clamp /\ getter(S, f, c.show) > 1 THEN setter(S, f, c.show, 1) ELSE S

returnElement(S, f, c) ==
    [S |-> S,
     element |-> IF S.panicked THEN Host("none")
                 ELSE Layout(c, f, getter(S, f, c.show))]

\* The body of a component after its hook calls; reading a state slot that
\* is out of range panics.
\* Fragile panics when it is rendered with state 2.
Fails(S, f) == S.fibers[f].typeOf = "Fragile" /\ getter(S, f, 0) = 2

componentBody(S, f, c) ==
    IF S.panicked \/ ~InRange(S, f, c.show) \/ Fails(S, f)
    THEN returnElement(Panic(S), f, c)
    ELSE returnElement(clampState(S, f, c), f, c)

\* componentFunc(fiber.props): the state after the call and the element it
\* returned (meaningless once the call has panicked).
componentFunc(S, f) ==
    componentBody(RunHooks(S, f, Components[S.fibers[f].typeOf], 1), f,
                  Components[S.fibers[f].typeOf])

\* --------------------------------------------------------------- host tree
Event(op, x, y) == [op |-> op, x |-> x, y |-> y]

Without(seq, h) == SelectSeq(seq, LAMBDA k : k # h)

IsChild(S, parent, h) == \E i \in 1..Len(S.hostChildren[parent]) :
                            S.hostChildren[parent][i] = h

\* Node.appendChild: a node that is already in the document is moved.
appendChild(S, parent, h) ==
    [S EXCEPT !.hostChildren =
                 [p \in DOMAIN @ |-> IF p = parent THEN Append(Without(@[p], h), h)
                                     ELSE Without(@[p], h)],
              !.commitLog = Append(@, Event("attach", parent, h))]

\* Node.removeChild throws when h is not a child of parent.
removeChild(S, parent, h) ==
    IF ~IsChild(S, parent, h)
    THEN Panic([S EXCEPT !.commitLog = Append(@, Event("invalid", parent, h))])
    ELSE [S EXCEPT !.hostChildren[parent] = Without(@, h),
                   !.commitLog = Append(@, Event("detach", parent, h))]

\* createDom that also appends the new handle to the container.
createDomAttached(S, f) ==
    LET h == Len(S.hostChildren) + 1
        props == S.fibers[f].props
    IN [S EXCEPT !.hostChildren = [Append(@, <<>>) EXCEPT ![1] = Append(@, h)],
                 !.hostProps = Append(@, [val |-> props.val,
                                          onclick |-> props.onclick]),
                 !.fibers[f].dom = h]

createDom(S, f) ==
    LET h == Len(S.hostChildren) + 1
        props == S.fibers[f].props
    IN [S EXCEPT !.hostChildren = Append(@, <<>>),
                 !.hostProps = Append(@, [val |-> props.val,
                                          onclick |-> props.onclick]),
                 !.fibers[f].dom = h]

updateDom(S, dom, oldProps, newProps) ==
    [S EXCEPT !.hostProps[dom] = [val |-> newProps.val,
                                  onclick |-> newProps.onclick],
              !.commitLog = Append(@, Event("patch", dom, dom))]

\* -------------------------------------------------------------- reconciler
\* sameType without the comparison of the two types.
sameTypeByIndex(S, oldFiber, elements, index) ==
    /\ oldFiber # Nil
    /\ index < Len(elements)

\* Lines 421-445: function components by pointer, everything else by value.
sameType(S, oldFiber, elements, index) ==
    /\ oldFiber # Nil
    /\ index < Len(elements)
    /\ elements[index + 1].Type = S.fibers[oldFiber].typeOf

\* The sibling chain that starts at fiber f.
RECURSIVE Chain(_, _)
Chain(fs, f) == IF f = Nil THEN <<>> ELSE <<f>> \o Chain(fs, fs[f].sibling)

\* makeFiber without the reuse of the old fiber's host handle.
makeFiberNewDom(S, w, elements, index, oldFiber) ==
    IF sameType(S, oldFiber, elements, index)
    THEN [S EXCEPT !.fibers = Append(@,
             Fiber(S.fibers[oldFiber].typeOf, elements[index + 1].Props,
                   Nil, w, oldFiber, "UPDATE"))]
    ELSE IF index < Len(elements)
    THEN [S EXCEPT !.fibers = Append(@,
             Fiber(elements[index + 1].Type, elements[index + 1].Props, Nil, w,
                   Nil, "PLACEMENT"))]
    ELSE S

\* makeFiber that tags every new fiber PLACEMENT.
makeFiberPlacement(S, w, elements, index, oldFiber) ==
    IF sameType(S, oldFiber, elements, index)
    THEN [S EXCEPT !.fibers = Append(@,
             Fiber(S.fibers[oldFiber].typeOf, elements[index + 1].Props,
                   S.fibers[oldFiber].dom, w, oldFiber, "PLACEMENT"))]
    ELSE IF index < Len(elements)
    THEN [S EXCEPT !.fibers = Append(@,
             Fiber(elements[index + 1].Type, elements[index + 1].Props, Nil, w,
                   Nil, "PLACEMENT"))]
    ELSE S

\* makeFiber that links the old fiber as alternate whatever its type.
makeFiberAnyAlternate(S, w, elements, index, oldFiber) ==
    IF sameType(S, oldFiber, elements, index)
    THEN [S EXCEPT !.fibers = Append(@,
             Fiber(S.fibers[oldFiber].typeOf, elements[index + 1].Props,
                   S.fibers[oldFiber].dom, w, oldFiber, "UPDATE"))]
    ELSE IF index < Len(elements)
    THEN [S EXCEPT !.fibers = Append(@,
             Fiber(elements[index + 1].Type, elements[index + 1].Props, Nil, w,
                   oldFiber, "PLACEMENT"))]
    ELSE S

\* Lines 447-468: the fiber made for position index, if any.
makeFiber(S, w, elements, index, oldFiber) ==
    IF sameType(S, oldFiber, elements, index)
    THEN [S EXCEPT !.fibers = Append(@,
             Fiber(S.fibers[oldFiber].typeOf, elements[index + 1].Props,
                   S.fibers[oldFiber].dom, w, oldFiber, "UPDATE"))]
    ELSE IF index < Len(elements)
    THEN [S EXCEPT !.fibers = Append(@,
             Fiber(elements[index + 1].Type, elements[index + 1].Props, Nil, w,
                   Nil, "PLACEMENT"))]
    ELSE S

\* Lines 470-475.
markDeletion(S, w, oldFiber, same) ==
    IF oldFiber # Nil /\ ~same
    THEN [S EXCEPT !.fibers[oldFiber].effectTag = "DELETION",
                   !.deletions = Append(@, oldFiber),
                   !.marks = @ \cup {[old |-> oldFiber, by |-> w]}]
    ELSE S

\* linkFiber that links the first child only.
linkFiberFirstOnly(S, w, index, hasElement, prevSibling, newFiber) ==
    IF index = 0 THEN [S EXCEPT !.fibers[w].child = newFiber] ELSE S

\* Lines 481-487.
linkFiber(S, w, index, hasElement, prevSibling, newFiber) ==
    IF index = 0 THEN [S EXCEPT !.fibers[w].child = newFiber]
    ELSE IF hasElement /\ prevSibling # Nil
    THEN [S EXCEPT !.fibers[prevSibling].sibling = newFiber]
    ELSE S

\* One iteration of the loop of lines 413-491.
reconcileAt(S, w, elements, index, oldFiber, prevSibling) ==
    IF index < Len(elements) /\ ~IsElement(elements[index + 1]) THEN Panic(S)
    ELSE linkFiber(markDeletion(makeFiber(S, w, elements, index, oldFiber), w, oldFiber,
                           sameType(S, oldFiber, elements, index)),
              w, index, index < Len(elements), prevSibling,
              IF index < Len(elements) THEN Len(S.fibers) + 1 ELSE Nil)

RECURSIVE reconcileLoop(_, _, _, _, _, _)
reconcileLoop(S, w, elements, index, oldFiber, prevSibling) ==
    IF ~(index < Len(elements) \/ oldFiber # Nil) \/ S.panicked THEN S
    ELSE reconcileLoop(reconcileAt(S, w, elements, index, oldFiber, prevSibling),
                       w, elements, index + 1,
                       IF oldFiber # Nil THEN S.fibers[oldFiber].sibling ELSE Nil,
                       IF index < Len(elements) THEN Len(S.fibers) + 1 ELSE Nil)

\* firstOld that reads the children of the pass before the alternate's.
firstOldOlder(S, w) ==
    IF S.fibers[w].alternate = Nil THEN Nil
    ELSE IF S.fibers[S.fibers[w].alternate].alternate = Nil
    THEN S.fibers[S.fibers[w].alternate].child
    ELSE S.fibers[S.fibers[S.fibers[w].alternate].alternate].child

\* Lines 407-410.
firstOld(S, w) ==
    IF S.fibers[w].alternate # Nil THEN S.fibers[S.fibers[w].alternate].child
    ELSE Nil

\* History of the reconcileChildren call that took S to S1.
recordReconcile(S, S1, w, elements) ==
    IF S1.panicked THEN S1
    ELSE
    [S1 EXCEPT !.lastReconcile =
       [parent |-> w,
        types |-> [i \in 1..Len(elements) |-> elements[i].Type],
        olds |-> Chain(S.fibers, firstOld(S, w)),
        deleted |-> SubSeq(S1.deletions, Len(S.deletions) + 1,
                           Len(S1.deletions))]]

reconcileChildren(S, w, elements) ==
    recordReconcile(S, reconcileLoop(S, w, elements, 0, firstOld(S, w), Nil),
                    w, elements)

\* initHooks without the copy from the alternate.
initHooksFresh(S, fiber) == EmptyHooks

\* Lines 264-289: the hook store a function-component fiber starts from.
initHooks(S, fiber) ==
    LET alt == S.fibers[fiber].alternate
    IN IF alt # Nil /\ ~S.fibers[alt].hooks.nil
       THEN [EmptyHooks EXCEPT !.state = S.fibers[alt].hooks.state,
                               !.deps = S.fibers[alt].hooks.deps]
       ELSE EmptyHooks

\* nextSibling without the climb to the parent.
nextSiblingNoClimb(S, nextFiber) ==
    IF nextFiber = Nil THEN Nil ELSE S.fibers[nextFiber].sibling

\* Lines 331-341: climb until a sibling is found.
RECURSIVE nextSibling(_, _)
nextSibling(S, nextFiber) ==
    IF nextFiber = Nil THEN Nil
    ELSE IF S.fibers[nextFiber].sibling # Nil THEN S.fibers[nextFiber].sibling
    ELSE nextSibling(S, S.fibers[nextFiber].parent)

\* traverse without the descent into the child.
traverseSiblings(S, fiber) == nextSibling(S, fiber)

\* Lines 325-341: the next fiber in pre-order.
traverse(S, fiber) ==
    IF S.fibers[fiber].child # Nil THEN S.fibers[fiber].child
    ELSE nextSibling(S, fiber)

\* Lines 291-298, r being what the component function returned.
reconcileComponent(r, fiber) ==
    IF r.S.panicked THEN [r.S EXCEPT !.failed = fiber]
    ELSE reconcileChildren(r.S, fiber, <<r.element>>)

\* Lines 313-317.
reconcileHost(S, fiber) ==
    reconcileChildren(S, fiber, S.fibers[fiber].props.children)

\* Lines 252-321: the work done on one fiber.
beginWork(S, fiber) ==
    IF S.fibers[fiber].typeOf = "ROOT" THEN reconcileHost(S, fiber)
    ELSE IF IsFunc(S.fibers[fiber].typeOf)
    THEN reconcileComponent(
           componentFunc([S EXCEPT !.wipFiber = fiber,
                                   !.fibers[fiber].hooks = initHooks(S, fiber),
                                   !.started = @ \cup
                                      {[fiber |-> fiber,
                                        state |-> initHooks(S, fiber).state]}],
                         fiber), fiber)
    ELSE reconcileHost(IF S.fibers[fiber].dom = Nil THEN createDom(S, fiber) ELSE S,
                       fiber)

\* Lines 325-341, and line 225 storing the result as the next unit of work.
completeWork(S, fiber) ==
    IF S.panicked THEN S
    ELSE [S EXCEPT !.nextUnitOfWork = traverse(S, fiber)]

\* History: fiber is handed to performUnitOfWork.
recordUnit(S, fiber) ==
    [S EXCEPT !.pass.visited = Append(@, fiber),
              !.units = IF S.fibers[fiber].typeOf = "ROOT" THEN <<fiber>>
                        ELSE Append(@, fiber)]

performUnitOfWork(S, fiber) ==
    completeWork(beginWork(recordUnit(S, fiber), fiber), fiber)

\* ------------------------------------------------------------------ commit
RECURSIVE domParentOf(_, _)
domParentOf(S, domParentFiber) ==
    IF domParentFiber # Nil /\ S.fibers[domParentFiber].dom = Nil
    THEN domParentOf(S, S.fibers[domParentFiber].parent)
    ELSE domParentFiber

\* commitDeletion without the removeChild call.
commitDeletionKeep(S, fiber, domParent) == S

\* The type assertion state.(js.Func) succeeds.
IsJsFunc(v) == v >= FirstFunc

\* Lines 607-614: Release on every js.Func in the fiber's state slots.
releaseCallbacks(S, fiber) ==
    IF S.panicked THEN S
    ELSE [S EXCEPT !.released = @ \cup
            {S.fibers[fiber].hooks.state[i] :
               i \in {j \in 1..Len(S.fibers[fiber].hooks.state) :
                         IsJsFunc(S.fibers[fiber].hooks.state[j])}}]

RECURSIVE commitDeletion(_, _, _)
commitDeletion(S, fiber, domParent) ==
    IF S.fibers[fiber].dom # Nil
    THEN releaseCallbacks(removeChild(S, domParent, S.fibers[fiber].dom), fiber)
    ELSE IF S.fibers[fiber].child # Nil
    THEN commitDeletion(S, S.fibers[fiber].child, domParent)
    ELSE S

\* Lines 575-598: what commitWork does at one fiber, and `into`, the fibers
\* it then recurses into, in order.
commitStep(S, fiber, domParent) ==
    LET f == S.fibers[fiber]
    IN CASE f.effectTag = "PLACEMENT" ->
              IF f.dom # Nil
              THEN [S |-> appendChild(S, domParent, f.dom),
                    into |-> <<f.child, f.sibling>>]
              ELSE [S |-> S, into |-> <<f.child>>]
         [] f.effectTag = "UPDATE" ->
              [S |-> IF f.dom # Nil
                     THEN updateDom(S, f.dom, S.fibers[f.alternate].props, f.props)
                     ELSE S,
               into |-> <<f.child, f.sibling>>]
         [] f.effectTag = "DELETION" ->
              [S |-> commitDeletion(S, fiber, domParent), into |-> <<>>]
         [] OTHER -> [S |-> S, into |-> <<f.child, f.sibling>>]

RECURSIVE commitWork(_, _)
RECURSIVE commitInto(_)
commitInto(r) ==
    IF Len(r.into) = 0 THEN r.S
    ELSE IF Len(r.into) = 1 THEN commitWork(r.S, r.into[1])
    ELSE commitWork(commitWork(r.S, r.into[1]), r.into[2])

commitWork(S, fiber) ==
    IF fiber = Nil \/ S.panicked THEN S
    ELSE IF domParentOf(S, S.fibers[fiber].parent) = Nil THEN S
    ELSE commitInto(commitStep(S, fiber,
            S.fibers[domParentOf(S, S.fibers[fiber].parent)].dom))

\* Lines 499-502.
RECURSIVE commitDeletions(_, _, _)
commitDeletions(S, list, i) ==
    IF i > Len(list) THEN S
    ELSE commitDeletions(commitWork(S, list[i]), list, i + 1)

\* History: no effect has made a value-changing setter call.
NoEffectSet == [committed |-> Nil, started |-> Nil]

\* An effect that calls setter(1), the setter being the one its render got
\* from useState.
setInEffect(S, fiber, position) ==
    IF InRange(S, fiber, position) /\ getter(S, fiber, position) # 1
    THEN [setter(S, fiber, position, 1) EXCEPT
            !.effectSet = [committed |-> S.pass.root,
                           started |-> Len(S.fibers) + 1]]
    ELSE setter(S, fiber, position, 1)

\* An effect callback of the application.
runEffect(S, effect) ==
    IF effect.kind = "set"
    THEN setInEffect(
           [S EXCEPT !.commitLog =
                        Append(@, Event("effect", effect.fiber, effect.pos))],
           effect.fiber, Components[S.fibers[effect.fiber].typeOf].show)
    ELSE [S EXCEPT !.commitLog =
                      Append(@, Event("effect", effect.fiber, effect.pos))]

RECURSIVE collectEffects(_, _)
collectEffects(S, fiber) ==
    IF fiber = Nil THEN <<>>
    ELSE (IF ~S.fibers[fiber].hooks.nil /\ Len(S.fibers[fiber].hooks.effects) > 0
          THEN <<fiber>> ELSE <<>>)
         \o collectEffects(S, S.fibers[fiber].child)
         \o collectEffects(S, S.fibers[fiber].sibling)

RECURSIVE runEffects(_, _, _)
runEffects(S, effects, i) ==
    IF i > Len(effects) \/ S.panicked THEN S
    ELSE runEffects(runEffect(S, effects[i]), effects, i + 1)

\* Line 542.
clearEffects(S, f) ==
    IF S.panicked THEN S ELSE [S EXCEPT !.fibers[f].hooks.effects = <<>>]

RECURSIVE runEffectFibers(_, _, _)
runEffectFibers(S, effectFibers, i) ==
    IF i > Len(effectFibers) \/ S.panicked THEN S
    ELSE runEffectFibers(
           clearEffects(runEffects(S, S.fibers[effectFibers[i]].hooks.effects, 1),
                        effectFibers[i]),
           effectFibers, i + 1)

RECURSIVE TreeOf(_, _)
TreeOf(fs, f) ==
    IF f = Nil THEN <<>>
    ELSE <<f>> \o TreeOf(fs, fs[f].child) \o TreeOf(fs, fs[f].sibling)

Members(seq) == {seq[i] : i \in 1..Len(seq)}

\* resetHookIndex that resets nothing.
resetHookIndexSkipped(S, fiber) == S

resetHookIndex(S, fiber) ==
    IF S.panicked THEN S
    ELSE [S EXCEPT !.fibers = [f \in DOMAIN @ |->
            IF f \in Members(TreeOf(S.fibers, fiber)) /\ ~@[f].hooks.nil
            THEN [@[f] EXCEPT !.hooks.index = 0] ELSE @[f]]]

\* A sequence back to front.
Reversed(seq) == [k \in 1..Len(seq) |-> seq[Len(seq) + 1 - k]]

\* executeEffects that visits the collected fibers last to first.
executeEffectsReversed(S) ==
    resetHookIndex(
      runEffectFibers(S, Reversed(collectEffects(S, S.fibers[S.currentRoot].child)),
                      1),
      S.fibers[S.currentRoot].child)

executeEffects(S) ==
    resetHookIndex(
      runEffectFibers(S, collectEffects(S, S.fibers[S.currentRoot].child), 1),
      S.fibers[S.currentRoot].child)

\* Lines 503-506.
commitTree(S) == commitWork(S, S.fibers[S.wipRoot].child)

\* promote with wipRoot cleared after the effects have run.
promoteClearLast(S) ==
    IF S.panicked THEN S
    ELSE [executeEffects([S EXCEPT !.currentRoot = S.wipRoot,
                                   !.deletions = <<>>])
            EXCEPT !.wipRoot = Nil]

\* Lines 507-513.
promote(S) ==
    IF S.panicked THEN S
    ELSE executeEffects([S EXCEPT !.currentRoot = S.wipRoot, !.wipRoot = Nil,
                                  !.deletions = <<>>])

\* History: a commit begins.
beginCommit(S) ==
    [S EXCEPT !.commitLog = <<Event("commit", S.wipRoot, Len(S.deletions))>>,
              !.pass.commits = @ + 1,
              !.commitCount = @ + 1,
              !.pass.commitAt = S.pass.invocations,
              !.pass.deleted = S.deletions]

\* commitRoot with the live tree committed before the deletions.
commitRootTreeFirst(S) ==
    promote(commitDeletions(commitTree(beginCommit(S)), S.deletions, 1))

\* commitRoot with the effects run before the live tree is committed.
commitRootEffectsFirst(S) ==
    commitWork(promote(commitDeletions(beginCommit(S), S.deletions, 1)),
               S.fibers[S.wipRoot].child)

commitRoot(S) ==
    promote(commitTree(commitDeletions(beginCommit(S), S.deletions, 1)))

\* --------------------------------------------------------------- work loop
\* Lines 223-228: units are performed until none is left or the deadline's
\* timeRemaining drops below 1, which it does after `budget` units.
RECURSIVE workUnits(_, _)
workUnits(S, budget) ==
    IF S.nextUnitOfWork = Nil \/ budget = 0 \/ S.panicked THEN S
    ELSE workUnits(performUnitOfWork(S, S.nextUnitOfWork), budget - 1)

\* Lines 230-233.
commitIfDone(S) ==
    IF ~S.panicked /\ S.wipRoot # Nil /\ S.nextUnitOfWork = Nil
    THEN commitRoot(S) ELSE S

\* reschedule that never requests another idle callback.
rescheduleNever(S) == S

\* reschedule that requests another idle callback whatever is left to do.
rescheduleAlways(S) ==
    IF ~S.panicked THEN requestIdleCallback(S) ELSE S

\* Lines 235-240.
reschedule(S) ==
    IF ~S.panicked /\ S.nextUnitOfWork # Nil THEN requestIdleCallback(S) ELSE S

workLoop(S, budget) ==
    reschedule(commitIfDone(
      workUnits([S EXCEPT !.pass.invocations = @ + 1], budget)))

\* ------------------------------------------------------------- application
Single(c) == createElement(c, NoProps, <<>>)

\* What main may hand to render: one function component (Example2), a host
\* element holding a function component followed by a host sibling, or a
\* host element holding two function components that use effects.
Apps == {Single(c) : c \in FuncTypes}
        \cup {createElement("div", NoProps, <<Single("Counter"), Host("span")>>),
              createElement("div", NoProps, <<Single("Logger"), Single("Setting")>>)}

Budgets == (1..MaxBudget) \cup {NoYield}

\* The cursor positions at which a component calls useState.
StatePositions(typ) ==
    {i - 1 : i \in {j \in 1..Len(Components[typ].hooks) :
                        Components[typ].hooks[j].k = "state"}}

RECURSIVE Alternates(_, _)
Alternates(fs, f) == IF f = Nil THEN {} ELSE {f} \cup Alternates(fs, fs[f].alternate)

\* The fibers whose closures the environment can still hold: those of the
\* committed tree and the committed fibers they replaced.
Callable ==
    IF currentRoot = Nil THEN {}
    ELSE {f \in UNION {Alternates(fibers, g) :
                          g \in Members(TreeOf(fibers, currentRoot))} :
             IsFunc(fibers[f].typeOf) /\ ~fibers[f].hooks.nil}

RECURSIVE HostUnder(_, _)
HostUnder(kids, h) ==
    {h} \cup UNION {HostUnder(kids, kids[h][i]) : i \in 1..Len(kids[h])}

Attached == HostUnder(hostChildren, Container)

\* The committed fibers of the component instance that fiber f belongs to:
\* the fiber of the current tree that f is, or that replaced f.
CommittedFiber(f) ==
    IF currentRoot = Nil THEN {}
    ELSE {g \in Members(TreeOf(fibers, currentRoot)) : f \in Alternates(fibers, g)}

\* The value the committed render of f's component instance holds at cursor
\* position `position`, NoVal if there is none.
CommittedValue(f, position) ==
    IF \E g \in CommittedFiber(f) : InRange(State, g, position)
    THEN getter(State, CHOOSE g \in CommittedFiber(f) : TRUE, position)
    ELSE NoVal

NoCall == [fiber |-> Nil, pos |-> 0, value |-> 0, same |-> FALSE,
           committed |-> NoVal, at |-> 0]
NoReconcile == [parent |-> Nil, types |-> <<>>, olds |-> <<>>, deleted |-> <<>>]

\* No setter has been called yet, at any of the cursor positions 0..3.
NoSet == <<NoVal, NoVal, NoVal, NoVal>>

Init ==
    /\ fibers = <<>>
    /\ wipRoot = Nil
    /\ currentRoot = Nil
    /\ nextUnitOfWork = Nil
    /\ deletions = <<>>
    /\ wipFiber = Nil
    /\ pending = 0
    /\ hostChildren = << <<>> >>
    /\ hostProps = <<[val |-> NoVal, onclick |-> NoCb]>>
    /\ released = {}
    /\ panicked = FALSE
    /\ rendered = FALSE
    /\ app \in Apps
    /\ passes = 0
    /\ pass = NewPass
    /\ commitLog = <<>>
    /\ effectCalls = {}
    /\ lastReconcile = NoReconcile
    /\ lastSet = NoSet
    /\ lastCall = NoCall
    /\ abandoned = {}
    /\ marks = {}
    /\ sets = NoSets
    /\ units = <<>>
    /\ failed = Nil
    /\ commitCount = 0
    /\ effectSet = NoEffectSet
    /\ started = {}
    /\ clicks = 0
    /\ slice = FALSE

\* main: render(createElement(component, nil), container).
Render ==
    /\ ~rendered
    /\ rendered' = TRUE
    /\ Apply(render(State, app))
    /\ UNCHANGED <<app, lastCall, clicks, slice>>

\* The host delivers one idle callback: a whole workLoop invocation under a
\* deadline that allows `budget` units.
\* WorkLoopWith in a runtime that survives a panic and goes on delivering
\* the idle callbacks already requested.
WorkLoopAfterPanic(budget) ==
    /\ pending > 0
    /\ Apply(workLoop([State EXCEPT !.pending = @ - 1, !.panicked = FALSE],
                      budget))
    /\ UNCHANGED <<rendered, app, lastCall, clicks, slice>>

WorkLoopWith(budget) ==
    /\ ~panicked
    /\ pending > 0
    /\ Apply(workLoop([State EXCEPT !.pending = @ - 1], budget))
    /\ UNCHANGED <<rendered, app, lastCall, clicks, slice>>

WorkLoop == \E budget \in Budgets : WorkLoopWith(budget)

\* A callback outside the render path (a fetch continuation, a timer) calls
\* a setter it captured.
SetterCall(f, position, v) ==
    /\ ~panicked
    /\ passes < MaxPasses
    /\ f \in Callable
    /\ position \in StatePositions(fibers[f].typeOf)
    /\ Apply(setter(State, f, position, v))
    /\ lastCall' = [fiber |-> f, pos |-> position, value |-> v,
                    same |-> InRange(State, f, position)
                             /\ getter(State, f, position) = v,
                    committed |-> CommittedValue(f, position),
                    at |-> commitCount]
    /\ UNCHANGED <<rendered, app, clicks, slice>>

\* The user clicks an element of the document: its onclick listener runs
\* setter(getter() + 1).
ClickHandler(h) ==
    /\ ~panicked
    /\ h \in Attached
    /\ hostProps[h].onclick.kind = "inc"
    /\ LET cb == hostProps[h].onclick
       IN IF ~InRange(State, cb.fiber, cb.pos)
          THEN Apply(Panic(State)) /\ UNCHANGED lastCall
          ELSE /\ Apply(setter(State, cb.fiber, cb.pos,
                               getter(State, cb.fiber, cb.pos) + 1))
               /\ lastCall' = [fiber |-> cb.fiber, pos |-> cb.pos,
                               value |-> getter(State, cb.fiber, cb.pos) + 1,
                               same |-> FALSE,
                               committed |-> CommittedValue(cb.fiber, cb.pos),
                               at |-> commitCount]
    /\ clicks' = clicks + 1
    /\ UNCHANGED <<rendered, app, slice>>

\* The value the listener of h would pass to its setter.
ClickValue(h) ==
    LET cb == hostProps[h].onclick
    IN IF cb.kind = "inc" /\ InRange(State, cb.fiber, cb.pos)
       THEN getter(State, cb.fiber, cb.pos) + 1 ELSE 0

Click(h) ==
    /\ passes < MaxPasses
    /\ ClickValue(h) <= MaxVal
    /\ ClickHandler(h)

Next ==
    \/ Render
    \/ WorkLoop
    \/ \E f \in DOMAIN fibers : \E position \in 0..3 : \E v \in 0..MaxVal :
          SetterCall(f, position, v)
    \/ \E h \in DOMAIN hostChildren : Click(h)

Spec == Init /\ [][Next]_vars

\* The host delivers every idle callback that was requested; the
\* application may stop calling render and setters at any time.
\* WorkLoopWith, made visible in slice.
WorkLoopLive(budget) ==
    /\ ~panicked
    /\ pending > 0
    /\ Apply(workLoop([State EXCEPT !.pending = @ - 1], budget))
    /\ slice' = ~slice
    /\ UNCHANGED <<rendered, app, lastCall, clicks>>

NextLive ==
    \/ Render
    \/ \E budget \in Budgets : WorkLoopLive(budget)
    \/ \E f \in DOMAIN fibers : \E position \in 0..3 : \E v \in 0..MaxVal :
          SetterCall(f, position, v)
    \/ \E h \in DOMAIN hostChildren : Click(h)

\* An idle callback is delivered: what every WorkLoopLive step does to
\* slice, and possible exactly when a WorkLoopLive step is.
Delivery == ~panicked /\ pending > 0 /\ slice' = ~slice

SpecLive == Init /\ [][NextLive]_vars /\ WF_slice(Delivery)

\* The applications whose components call no setter while they render, under
\* a deadline that forces a yield after every unit of work.
InitYield == Init /\ ~(IsFunc(app.Type) /\ Components[app.Type].clamp)

NextYield ==
    \/ Render
    \/ WorkLoopWith(1)
    \/ \E f \in DOMAIN fibers : \E position \in 0..3 : \E v \in 0..MaxVal :
          SetterCall(f, position, v)
    \/ \E h \in DOMAIN hostChildren : Click(h)

SpecYield == InitYield /\ [][NextYield]_vars

\* Example2: the click counter, clicked at any moment.
InitCounter == Init /\ app = Single("Counter")

CounterClick(h) == clicks < MaxClicks /\ ClickHandler(h)

NextCounter ==
    \/ Render
    \/ WorkLoop
    \/ \E h \in DOMAIN hostChildren : CounterClick(h)

SpecCounter == InitCounter /\ [][NextCounter]_vars

\* ------------------------------------------------------------------ claims
CurrentTree == IF currentRoot = Nil THEN {} ELSE Members(TreeOf(fibers, currentRoot))

\* "Some element of deps differs by value from the deps recorded before."
DepsDiffer(prev, deps) ==
    \/ prev.nil
    \/ \E i \in 1..Len(deps.elems) :
          i > Len(prev.elems) \/ prev.elems[i] # deps.elems[i]

\* The useEffect call c is the first render of its slot.
FirstRenderOfSlot(c) ==
    LET alt == fibers[c.fiber].alternate
    IN alt = Nil \/ fibers[alt].hooks.nil \/ Len(fibers[alt].hooks.deps) <= c.pos

\* C1: a useEffect call queues its callback iff it is the first render of
\* the slot, or deps is nil, or some element of deps differs from the deps
\* the previous render recorded for the slot.
C1_EffectGating ==
    \A c \in effectCalls :
        c.queued <=>
            \/ FirstRenderOfSlot(c)
            \/ c.deps.nil
            \/ DepsDiffer(fibers[fibers[c.fiber].alternate].hooks.deps[c.pos + 1],
                          c.deps)

\* The value slot k of a component must hold: the one last passed to its
\* setter, or the initial value of the k-th hook call.
Expected(typ, k) ==
    IF lastSet[k + 1] # NoVal THEN lastSet[k + 1]
    ELSE Components[typ].hooks[k + 1].init

\* C2: on a second or later render, the getter of slot k returns the value
\* last passed to slot k's setter, or slot k's initial value.
C2_PositionalIdentity ==
    \A f \in CurrentTree :
        (IsFunc(fibers[f].typeOf) /\ fibers[f].alternate # Nil) =>
            \A k \in StatePositions(fibers[f].typeOf) :
                /\ InRange(State, f, k)
                /\ getter(State, f, k) = Expected(fibers[f].typeOf, k)

\* The old fiber at child index i of the last reconcileChildren call.
OldAt(i) == IF i <= Len(lastReconcile.olds) THEN lastReconcile.olds[i] ELSE Nil

\* The old fiber at index i exists and has the type of the new node at i.
Matches(i) ==
    /\ OldAt(i) # Nil
    /\ i <= Len(lastReconcile.types)
    /\ fibers[OldAt(i)].typeOf = lastReconcile.types[i]

RECURSIVE Unmatched(_)
Unmatched(i) ==
    IF i > Len(lastReconcile.olds) THEN <<>>
    ELSE (IF Matches(i) THEN <<>> ELSE <<OldAt(i)>>) \o Unmatched(i + 1)

\* C3: after reconcileChildren, the new fiber at index i is an UPDATE iff an
\* old fiber exists at i with the new node's type; otherwise it is a
\* PLACEMENT without alternate, and the old fiber at i is tagged DELETION and
\* appended to the deletions list.
C3_ReconcileTags ==
    lastReconcile.parent # Nil =>
        LET news == Chain(fibers, fibers[lastReconcile.parent].child)
        IN /\ Len(news) = Len(lastReconcile.types)
           /\ \A i \in 1..Len(news) :
                 /\ fibers[news[i]].typeOf = lastReconcile.types[i]
                 /\ fibers[news[i]].effectTag = "UPDATE" <=> Matches(i)
                 /\ Matches(i) => fibers[news[i]].alternate = OldAt(i)
                 /\ ~Matches(i) => /\ fibers[news[i]].effectTag = "PLACEMENT"
                                   /\ fibers[news[i]].alternate = Nil
           /\ lastReconcile.deleted = Unmatched(1)
           /\ \A i \in 1..Len(lastReconcile.deleted) :
                 fibers[lastReconcile.deleted[i]].effectTag = "DELETION"

\* A reconcileChildren call that updated, placed and deleted.
C3_Witness ==
    /\ lastReconcile.parent # Nil
    /\ Len(lastReconcile.deleted) > 0
    /\ \E i, j \in 1..Len(lastReconcile.types) : Matches(i) /\ ~Matches(j)

\* C4: within a commit every detach precedes the first attach.
C4_DeletionsFirst ==
    \A i, j \in 1..Len(commitLog) :
        (commitLog[i].op = "attach" /\ commitLog[j].op = "detach") => j < i

C4_Witness ==
    \E i, j \in 1..Len(commitLog) :
        commitLog[i].op = "attach" /\ commitLog[j].op = "detach"

HostOps == {"attach", "detach", "patch"}

\* C5: within a commit every effect runs after the last host mutation, and
\* the effects run are those of the tree just committed.
C5_EffectsAfterMutations ==
    /\ \A i, j \in 1..Len(commitLog) :
          (commitLog[i].op = "effect" /\ commitLog[j].op \in HostOps) => j < i
    /\ \A i \in 1..Len(commitLog) :
          commitLog[i].op = "effect" => commitLog[i].x \in CurrentTree

C5_Witness ==
    \E i, j \in 1..Len(commitLog) :
        commitLog[i].op = "effect" /\ commitLog[j].op \in HostOps

\* C6: a setter called with the value its slot holds changes nothing and
\* schedules nothing.
C6_IdempotentSetter ==
    [][\A f \in DOMAIN fibers : \A position \in 0..3 : \A v \in 0..MaxVal :
          (/\ SetterCall(f, position, v)
           /\ InRange(State, f, position)
           /\ getter(State, f, position) = v)
          => UNCHANGED <<fibers, wipRoot, currentRoot, nextUnitOfWork,
                         deletions, wipFiber, pending, hostChildren,
                         hostProps, released, panicked>>]_vars

C6_Witness == lastCall.fiber # Nil /\ lastCall.same

\* C9: a setter called while a component renders leaves the running pass
\* alone: what is committed is the tree the work loop built and traversed.
C9_SetterInRender ==
    pass.commits > 0 => CurrentTree = Members(pass.visited)

\* C10: after a commit every PLACEMENT fiber with a host handle is attached
\* under the handle of its nearest ancestor that has one.
C10_PlacementsAttached ==
    \A f \in CurrentTree :
        (fibers[f].effectTag = "PLACEMENT" /\ fibers[f].dom # Nil) =>
            IsChild(State, fibers[domParentOf(State, fibers[f].parent)].dom,
                    fibers[f].dom)

\* The fibers of the pass the history variable `pass` describes.
PassTree == TreeOf(fibers, pass.root)

Idle == currentRoot # Nil /\ wipRoot = Nil /\ nextUnitOfWork = Nil

\* C8: three clicks on the counter, once their passes have committed, show
\* 3, in the host nodes the first commit attached and no others.
C8_CounterShowsThree ==
    (clicks = 3 /\ Idle) =>
        /\ \A f \in CurrentTree :
              /\ IsFunc(fibers[f].typeOf) => getter(State, f, 0) = 3
              /\ fibers[f].typeOf = "TEXT_ELEMENT" =>
                    /\ fibers[f].props.val = 3
                    /\ hostProps[fibers[f].dom].val = 3
        /\ hostChildren = << <<2>>, <<3>>, <<>> >>

C8_Witness == clicks = 3 /\ Idle /\ ~panicked

\* C11: a setter called with a value its slot does not hold stores the value
\* in the slot and starts a pass: a new root whose alternate is the committed
\* root, which is the next unit of work, with an empty deletions list.
C11_SetterStartsPass ==
    [][\A f \in DOMAIN fibers : \A position \in 0..3 : \A v \in 0..MaxVal :
          (/\ SetterCall(f, position, v)
           /\ InRange(State, f, position)
           /\ getter(State, f, position) # v)
          => /\ fibers'[f].hooks.state[position + 1] = v
             /\ wipRoot' = Len(fibers) + 1
             /\ fibers'[wipRoot'].typeOf = "ROOT"
             /\ fibers'[wipRoot'].alternate = currentRoot
             /\ currentRoot' = currentRoot
             /\ nextUnitOfWork' = wipRoot'
             /\ deletions' = <<>>
             /\ pending' = pending + 1]_vars

\* A value-changing setter call has replaced an unfinished pass, whose root
\* already has children.
C11_Witness ==
    /\ ~panicked
    /\ lastCall.fiber # Nil /\ ~lastCall.same
    /\ wipRoot # Nil /\ nextUnitOfWork = wipRoot
    /\ fibers[wipRoot].alternate = currentRoot
    /\ \E r \in DOMAIN fibers :
          /\ r \notin {wipRoot, currentRoot}
          /\ fibers[r].typeOf = "ROOT"
          /\ fibers[r].alternate = currentRoot
          /\ fibers[r].child # Nil

\* The root of the tree fiber f was created in.
RECURSIVE RootOf(_)
RootOf(f) == IF fibers[f].parent = Nil THEN f ELSE RootOf(fibers[f].parent)

\* The roots that are or have been the committed root.
CommittedRoots == Alternates(fibers, currentRoot)

\* C12: a pass replaced before its commit has no later consequence: its root
\* never becomes current, none of its fibers belongs to a committed tree,
\* none of its effects runs, and no commit applies a deletion that only the
\* abandoned pass queued.
C12_AbandonedPassInert ==
    \A r \in abandoned :
        /\ r \notin CommittedRoots
        /\ \A c \in CommittedRoots :
              Members(TreeOf(fibers, r)) \cap Members(TreeOf(fibers, c)) = {}
        /\ \A i \in 1..Len(commitLog) :
              commitLog[i].op = "effect" => RootOf(commitLog[i].x) # r
        /\ pass.commits > 0 =>
              \A i \in 1..Len(pass.deleted) :
                 \E m \in marks : /\ m.old = pass.deleted[i]
                                  /\ RootOf(m.by) \notin abandoned

\* C13: a step that commits nothing issues no attach, detach or patch: every
\* existing handle keeps its children and its properties, and a handle the
\* step allocates is the child of no handle.
C13_RenderLeavesHostAlone ==
    [][commitCount' = commitCount =>
          /\ \A h \in DOMAIN hostChildren :
                /\ hostChildren'[h] = hostChildren[h]
                /\ hostProps'[h] = hostProps[h]
          /\ \A h \in DOMAIN hostChildren' \ DOMAIN hostChildren :
                \A p \in DOMAIN hostChildren' :
                   \A i \in 1..Len(hostChildren'[p]) : hostChildren'[p][i] # h]_vars

\* A pass that has yielded twice, has allocated a handle and is not done.
C13_Witness ==
    /\ pass.commits = 0 /\ pass.invocations >= 2 /\ nextUnitOfWork # Nil
    /\ \E f \in Members(pass.visited) :
          /\ fibers[f].effectTag = "PLACEMENT"
          /\ fibers[f].dom # Nil
          /\ fibers[f].dom \notin Attached

\* C14: the value-changing setter calls made since the last commit lead to
\* one commit, of a pass reconciled against the tree that was committed when
\* they were made, and the component rendered in it reads every value set.
C14_UpdatesCollapse ==
    (pass.commits > 0 /\ sets.n > 0 /\ ~panicked) =>
        /\ pass.commits = 1
        /\ fibers[currentRoot].alternate = sets.base
        /\ \E f \in CurrentTree : IsFunc(fibers[f].typeOf)
        /\ \A f \in CurrentTree : IsFunc(fibers[f].typeOf) =>
              \A k \in 0..3 : sets.vals[k + 1] # NoVal =>
                 /\ InRange(State, f, k)
                 /\ getter(State, f, k) = sets.vals[k + 1]

\* C15: the props of a node made by createElement hold its children in call
\* order, and every child they hold is a node: a string passed as a child
\* has become a text node.
C15_ChildrenNormalised ==
    \A f \in DOMAIN fibers :
        \A i \in 1..Len(fibers[f].props.children) :
            /\ IsElement(fibers[f].props.children[i])
            /\ fibers[f].props.children[i].Props.children
                  = fibers[f].props.children[i].Children

\* The tree the fibers processed belong to, in pre-order.
UnitsTree == IF units = <<>> THEN <<>> ELSE TreeOf(fibers, RootOf(units[1]))

ThreeToTwo(f) ==
    /\ fibers[f].alternate # Nil
    /\ LET olds == Chain(fibers, fibers[fibers[f].alternate].child)
           news == Chain(fibers, fibers[f].child)
       IN /\ Len(olds) = 3 /\ Len(news) = 2
          /\ \A g \in Members(olds) \cup Members(news) :
                fibers[g].typeOf = fibers[olds[1]].typeOf

\* C17: when [a, b, c] has become [a, c], the fiber at index 1 is an UPDATE
\* of the old fiber at index 1: it has b's host handle, which now shows c's
\* props; the old fiber at index 2 is tagged DELETION and its handle, which
\* showed c, is detached.
C17_IndexMatching ==
    (Idle /\ ~panicked) =>
        \A f \in CurrentTree : ThreeToTwo(f) =>
            LET olds == Chain(fibers, fibers[fibers[f].alternate].child)
                news == Chain(fibers, fibers[f].child)
            IN /\ fibers[news[2]].effectTag = "UPDATE"
               /\ fibers[news[2]].alternate = olds[2]
               /\ fibers[news[2]].dom = fibers[olds[2]].dom
               /\ fibers[news[2]].props.val = fibers[olds[3]].props.val
               /\ hostProps[fibers[olds[2]].dom].val = fibers[olds[3]].props.val
               /\ fibers[olds[3]].effectTag = "DELETION"
               /\ fibers[olds[3]].dom \notin Attached
               /\ hostChildren[fibers[f].dom]
                     = <<fibers[olds[1]].dom, fibers[olds[2]].dom>>

C17_Witness ==
    /\ Idle /\ ~panicked
    /\ \E f \in CurrentTree :
          /\ ThreeToTwo(f)
          /\ fibers[Chain(fibers, fibers[fibers[f].alternate].child)[2]].dom # Nil
          /\ fibers[fibers[f].parent].typeOf = "Items"

\* C18: a workLoop invocation (the component functions it runs, their hook
\* calls and the setter calls they make on the fiber being rendered) leaves
\* the state and deps slots of every fiber that is the alternate of a
\* function-component fiber as they were.
C18_AlternateUntouched ==
    [][WorkLoop =>
          \A f \in DOMAIN fibers :
             (\E g \in DOMAIN fibers' : /\ fibers'[g].alternate = f
                                        /\ IsFunc(fibers'[g].typeOf))
             => /\ fibers'[f].hooks.state = fibers[f].hooks.state
                /\ fibers'[f].hooks.deps = fibers[f].hooks.deps]_vars

\* A fiber rendered in an update pass has set its own slot to 1 during the
\* render, and its alternate still holds the value it had.
C18_Witness ==
    \E g \in Members(units) :
        /\ IsFunc(fibers[g].typeOf) /\ Components[fibers[g].typeOf].clamp
        /\ fibers[g].alternate # Nil
        /\ InRange(State, g, 0) /\ getter(State, g, 0) = 1
        /\ InRange(State, fibers[g].alternate, 0)
        /\ getter(State, fibers[g].alternate, 0) > 1
        /\ sets.vals[1] = 1

\* C19: no step changes a host handle a fiber already has; a fiber made for
\* a position whose type stayed the same has the handle of the fiber it
\* replaces; and every handle was allocated for a fiber that replaced none.
C19_HandleStable ==
    [][/\ \A f \in DOMAIN fibers :
             fibers[f].dom # Nil => fibers'[f].dom = fibers[f].dom
       /\ \A f \in DOMAIN fibers' :
             fibers'[f].alternate # Nil =>
                fibers'[f].dom = fibers'[fibers'[f].alternate].dom
       /\ \A h \in 2..Len(hostChildren') :
             \E f \in DOMAIN fibers' : /\ fibers'[f].dom = h
                                       /\ fibers'[f].alternate = Nil]_vars

\* A committed host fiber that is the second update of its position.
C19_Witness ==
    \E f \in CurrentTree :
        /\ fibers[f].typeOf \notin {"ROOT"} \cup FuncTypes
        /\ fibers[f].dom # Nil
        /\ fibers[f].alternate # Nil
        /\ fibers[fibers[f].alternate].alternate # Nil

\* The js.Func callbacks held in the state slots of fiber f.
CallbacksOf(f) ==
    {fibers[f].hooks.state[i] :
       i \in {j \in 1..Len(fibers[f].hooks.state) :
                 IsJsFunc(fibers[f].hooks.state[j])}}

\* C20: after a commit, the host handles of every fiber the commit deleted
\* and of its descendants are out of the document, and every callback held
\* in the hook slots of a deleted fiber has been released.
C20_DeletionReleases ==
    (Idle /\ ~panicked /\ pass.commits > 0) =>
        \A i \in 1..Len(pass.deleted) :
            /\ \A g \in {pass.deleted[i]}
                      \cup Members(TreeOf(fibers, fibers[pass.deleted[i]].child)) :
                  fibers[g].dom # Nil => fibers[g].dom \notin Attached
            /\ CallbacksOf(pass.deleted[i]) \subseteq released

\* C21: between handlers no component function is executing, so no fiber is
\* the active component fiber.
C21_ActiveFiberCleared == wipFiber = Nil

\* C22: once a component function has failed, the pass it was rendered in
\* stays uncommitted (its root is still the work-in-progress root and no
\* commit has run for it), and the failed fiber has been handed to
\* performUnitOfWork once and never again.
C22_FailureAborts ==
    failed # Nil =>
        /\ panicked
        /\ wipRoot = RootOf(failed) /\ currentRoot # wipRoot
        /\ pass.root = wipRoot /\ pass.commits = 0
        /\ failed \notin CurrentTree
        /\ Cardinality({i \in 1..Len(units) : units[i] = failed}) = 1

\* A component has failed in an update pass while another idle callback was
\* still to be delivered.
C22_Witness == failed # Nil /\ currentRoot # Nil /\ pending > 0

\* C23: the pass an effect starts by a value-changing setter call has a root
\* whose alternate is the root that commit was committing; and it is not
\* lost: while it is neither committed nor replaced it is the pass in
\* progress, with a unit of work to do and an idle callback to come.
C23_EffectSetterStartsPass ==
    effectSet.started # Nil =>
        /\ fibers[effectSet.started].alternate = effectSet.committed
        /\ effectSet.committed \in CommittedRoots
        /\ \/ panicked
           \/ effectSet.started \in CommittedRoots
           \/ effectSet.started \in abandoned
           \/ /\ wipRoot = effectSet.started
              /\ nextUnitOfWork # Nil
              /\ RootOf(nextUnitOfWork) = wipRoot
              /\ pending > 0

\* The pass an effect started has been committed.
C23_Witness ==
    /\ effectSet.started # Nil /\ ~panicked
    /\ currentRoot = effectSet.started

\* What holds of the committed tree after a commit, whatever the effects did.
CommittedTreeReset ==
    /\ currentRoot' = commitLog'[1].x
    /\ deletions' = <<>>
    /\ \A f \in Members(TreeOf(fibers', currentRoot')) :
          /\ fibers'[f].hooks.effects = <<>>
          /\ fibers'[f].hooks.index = 0

\* C24, as stated: right after every commit current is the root that was
\* work in progress, there is no work-in-progress root, the deletions list is
\* empty, and in the committed tree no effect is queued and every hook
\* cursor is zero.
C24_AfterCommitStated ==
    [][(commitCount' # commitCount /\ ~panicked') =>
          (CommittedTreeReset /\ wipRoot' = Nil)]_vars

\* C24, amended: the same, except that when an effect of the commit made a
\* value-changing setter call the work-in-progress root is the root of the
\* pass that call started, whose alternate is the new current root.
C24_AfterCommit ==
    [][(commitCount' # commitCount /\ ~panicked') =>
          /\ CommittedTreeReset
          /\ IF effectSet' # effectSet
             THEN /\ wipRoot' = effectSet'.started
                  /\ fibers'[wipRoot'].alternate = currentRoot'
             ELSE wipRoot' = Nil]_vars

\* Right after a commit whose effect called a setter: the new pass has not
\* been worked on yet.
C24_Witness ==
    /\ ~panicked /\ effectSet.started # Nil
    /\ wipRoot = effectSet.started /\ nextUnitOfWork = wipRoot
    /\ currentRoot = effectSet.committed
    /\ pass.invocations = 0
    /\ \E f \in CurrentTree : IsFunc(fibers[f].typeOf) /\ ~fibers[f].hooks.nil

\* The fibers of the tree under the work-in-progress root.
WipTree == IF wipRoot = Nil THEN {} ELSE Members(TreeOf(fibers, wipRoot))

\* The child index of fiber f under its parent (1 for the first child).
ChildIndex(f) ==
    CHOOSE i \in 1..Len(Chain(fibers, fibers[fibers[f].parent].child)) :
        Chain(fibers, fibers[fibers[f].parent].child)[i] = f

\* The fiber at child index i under fiber p, Nil if there is none.
ChildAt(p, i) ==
    IF p # Nil /\ i <= Len(Chain(fibers, fibers[p].child))
    THEN Chain(fibers, fibers[p].child)[i] ELSE Nil

\* C25: the work-in-progress root's alternate is the current root, and every
\* other work-in-progress fiber that has an alternate points to the fiber of
\* the current tree that has the same child index under the alternate of its
\* parent.
C25_AlternatePosition ==
    wipRoot # Nil =>
        /\ fibers[wipRoot].alternate = currentRoot
        /\ \A f \in WipTree \ {wipRoot} :
              fibers[f].alternate # Nil =>
                  /\ fibers[f].alternate \in CurrentTree
                  /\ fibers[f].alternate =
                        ChildAt(fibers[fibers[f].parent].alternate, ChildIndex(f))

\* A re-render pass has matched a second child with an old fiber.
C25_Witness ==
    /\ wipRoot # Nil /\ currentRoot # Nil /\ ~panicked
    /\ \E f \in WipTree \ {wipRoot} :
          /\ fibers[f].alternate # Nil
          /\ ChildIndex(f) = 2
          /\ fibers[fibers[f].alternate].alternate # Nil

\* C26: a re-rendered component fiber has as many state slots and as many
\* effect-dependency slots as the fiber it was rendered from.
C26_SlotCountsStable ==
    \A f \in DOMAIN fibers :
        (/\ ~panicked
         /\ fibers[f].alternate # Nil
         /\ ~fibers[f].hooks.nil
         /\ ~fibers[fibers[f].alternate].hooks.nil) =>
            /\ Len(fibers[f].hooks.state) =
                  Len(fibers[fibers[f].alternate].hooks.state)
            /\ Len(fibers[f].hooks.deps) =
                  Len(fibers[fibers[f].alternate].hooks.deps)

\* The tree under root r hangs together: the root has no parent and no
\* sibling, no fiber is reached twice, and every fiber on the sibling chain
\* under f has f as its parent.
WellLinked(r) ==
    r # Nil =>
        /\ fibers[r].parent = Nil /\ fibers[r].sibling = Nil
        /\ Cardinality(Members(TreeOf(fibers, r))) = Len(TreeOf(fibers, r))
        /\ \A f \in Members(TreeOf(fibers, r)) :
              \A c \in Members(Chain(fibers, fibers[f].child)) :
                  fibers[c].parent = f

\* The children of the fiber reconciled last are those of its new child
\* list, in that order.
InNewListOrder ==
    (~panicked /\ lastReconcile.parent \in WipTree \cup CurrentTree) =>
        [i \in 1..Len(Chain(fibers, fibers[lastReconcile.parent].child)) |->
            fibers[Chain(fibers, fibers[lastReconcile.parent].child)[i]].typeOf]
        = lastReconcile.types

\* C27, as stated: the work-in-progress tree and the current tree are well
\* linked, children are in new-list order, and neither tree holds a fiber
\* tagged DELETION.
C27_WellFormedStated ==
    /\ WellLinked(wipRoot) /\ WellLinked(currentRoot)
    /\ InNewListOrder
    /\ \A f \in WipTree \cup CurrentTree : fibers[f].effectTag # "DELETION"

\* C27, amended: the same, except that a fiber of the current tree is
\* tagged DELETION once a later pass has marked it for removal.
C27_WellFormed ==
    /\ WellLinked(wipRoot) /\ WellLinked(currentRoot)
    /\ InNewListOrder
    /\ \A f \in WipTree : fibers[f].effectTag # "DELETION"
    /\ \A f \in CurrentTree :
          fibers[f].effectTag = "DELETION" =>
              \E m \in marks : m.old = f /\ m.by \notin CurrentTree

\* A pass in progress has linked two children under a fiber and marked a
\* fiber of the current tree for removal.
C27_Witness ==
    /\ ~panicked /\ wipRoot # Nil /\ currentRoot # Nil
    /\ lastReconcile.parent \in WipTree
    /\ Len(lastReconcile.types) >= 2
    /\ \E f \in CurrentTree : fibers[f].effectTag = "DELETION"

\* C28: whenever a next unit of work exists, a work-in-progress root exists
\* and the next unit of work is a fiber of the tree under that root.
C28_PassesNotInterleaved ==
    (~panicked /\ nextUnitOfWork # Nil) =>
        /\ wipRoot # Nil
        /\ nextUnitOfWork \in WipTree

\* The queued useEffect calls of fiber f among calls, by cursor position.
RECURSIVE QueuedFrom(_, _, _)
QueuedFrom(calls, f, position) ==
    IF position > 3 THEN <<>>
    ELSE (IF \E c \in calls : c.fiber = f /\ c.pos = position /\ c.queued
          THEN <<Event("effect", f, position)>> ELSE <<>>)
         \o QueuedFrom(calls, f, position + 1)

\* The queued useEffect calls of the fibers tree[i..], fiber by fiber.
RECURSIVE QueuedIn(_, _, _)
QueuedIn(calls, tree, i) ==
    IF i > Len(tree) THEN <<>>
    ELSE QueuedFrom(calls, tree[i], 0) \o QueuedIn(calls, tree, i + 1)

\* The effects run by the commit whose log is log, in the order they ran.
EffectsRun(log) == SelectSeq(log, LAMBDA e : e.op = "effect")

\* C29: the effects run by a commit are exactly the effects queued by the
\* useEffect calls of the committed tree's fibers, each once, fiber by fiber in
\* pre-order and within a fiber in call order; none of them belongs to a fiber
\* of the tree committed before.
C29_EffectsOncePreOrder ==
    [][(commitCount' # commitCount /\ ~panicked') =>
          /\ EffectsRun(commitLog') =
                QueuedIn(effectCalls', TreeOf(fibers', currentRoot'), 1)
          /\ \A i \in 1..Len(commitLog') :
                commitLog'[i].op = "effect" => commitLog'[i].x \notin CurrentTree]_vars

\* A second commit has run the effects of two fibers, two of them queued by
\* one fiber.
C29_Witness ==
    /\ ~panicked /\ commitCount >= 2
    /\ \E i, j, k \in 1..Len(commitLog) :
          /\ i < j /\ j < k
          /\ commitLog[i].op = "effect" /\ commitLog[j].op = "effect"
          /\ commitLog[k].op = "effect"
          /\ commitLog[i].x = commitLog[j].x /\ commitLog[j].x # commitLog[k].x

\* The cursor positions whose setter a component of type typ calls itself,
\* while it renders or from its effect.
SelfSet(typ) ==
    IF Components[typ].clamp
       \/ \E i \in 1..Len(Components[typ].hooks) :
             Components[typ].hooks[i].act = "set"
    THEN {Components[typ].show} ELSE {}

\* The component fibers rendered by the step.
RenderedInStep ==
    {f \in DOMAIN fibers' :
        /\ IsFunc(fibers'[f].typeOf) /\ ~fibers'[f].hooks.nil
        /\ f \in DOMAIN fibers => fibers[f].hooks.nil}

\* C30: a component fiber rendered from an alternate reads, at every state
\* slot whose setter was not called on it, the value its alternate held; and
\* a stored state value changes only at the slot whose setter was called.
C30_OtherSlotsKept ==
    [][~panicked' =>
          /\ \A f \in RenderedInStep :
                (/\ fibers'[f].alternate \in DOMAIN fibers
                 /\ ~fibers[fibers'[f].alternate].hooks.nil) =>
                    \A k \in 1..Len(fibers[fibers'[f].alternate].hooks.state) :
                        (k - 1) \notin SelfSet(fibers'[f].typeOf) =>
                            /\ k <= Len(fibers'[f].hooks.state)
                            /\ fibers'[f].hooks.state[k] =
                                  fibers[fibers'[f].alternate].hooks.state[k]
          /\ \A g \in DOMAIN fibers :
                ~fibers[g].hooks.nil =>
                    /\ Len(fibers'[g].hooks.state) = Len(fibers[g].hooks.state)
                    /\ \A k \in 1..Len(fibers[g].hooks.state) :
                          fibers'[g].hooks.state[k] # fibers[g].hooks.state[k] =>
                              \/ (k - 1) \in SelfSet(fibers[g].typeOf)
                              \/ /\ lastCall' # lastCall \/ clicks' # clicks
                                 /\ lastCall'.fiber = g /\ lastCall'.pos = k - 1
                                 /\ fibers'[g].hooks.state[k] = lastCall'.value]_vars

\* A component with two state slots has been re-rendered twice, after the
\* setter of its first slot and then after the setter of its second: the
\* first slot still holds the value set, not its initial value.
C30_Witness ==
    /\ ~panicked /\ lastCall.pos = 1
    /\ \E f \in CurrentTree :
          /\ fibers[f].typeOf = "Pair"
          /\ fibers[f].alternate # Nil
          /\ fibers[fibers[f].alternate].alternate # Nil
          /\ fibers[f].hooks.state = <<1, 2>>

\* The initial values of the state slots of a component of type typ.
InitialState(typ) ==
    [i \in 1..Len(SelectSeq(Components[typ].hooks, LAMBDA h : h.k = "state")) |->
        SelectSeq(Components[typ].hooks, LAMBDA h : h.k = "state")[i].init]

\* The fiber that held the position of f in the tree f's pass started from,
\* Nil if that tree had none there.
OldAtPosition(f) == ChildAt(fibers[fibers[f].parent].alternate, ChildIndex(f))

\* C31: a component fiber of the pass in progress has an alternate exactly
\* when the current tree holds a fiber of its type at its position; it then
\* started its render with that fiber's state slots, and otherwise with none,
\* so that its slots hold their initial values.
C31_HooksFollowAlternate ==
    \A r \in started :
        (~panicked /\ r.fiber \in WipTree) =>
            /\ fibers[r.fiber].alternate # Nil <=>
                  /\ OldAtPosition(r.fiber) # Nil
                  /\ fibers[OldAtPosition(r.fiber)].typeOf = fibers[r.fiber].typeOf
            /\ fibers[r.fiber].alternate # Nil =>
                  /\ fibers[r.fiber].alternate = OldAtPosition(r.fiber)
                  /\ r.state = fibers[fibers[r.fiber].alternate].hooks.state
            /\ fibers[r.fiber].alternate = Nil =>
                  /\ r.state = <<>>
                  /\ \A k \in 1..Len(InitialState(fibers[r.fiber].typeOf)) :
                        (k - 1) \notin SelfSet(fibers[r.fiber].typeOf) =>
                            fibers[r.fiber].hooks.state[k] =
                               InitialState(fibers[r.fiber].typeOf)[k]

\* A pass in progress has rendered a Pair where the current tree holds a
\* Counter whose state is 1: the Pair has no alternate and its first slot is 0.
C31_Witness ==
    /\ ~panicked
    /\ \E r \in started :
          /\ r.fiber \in WipTree
          /\ fibers[r.fiber].typeOf = "Pair"
          /\ fibers[r.fiber].alternate = Nil
          /\ OldAtPosition(r.fiber) # Nil
          /\ fibers[OldAtPosition(r.fiber)].typeOf = "Counter"
          /\ fibers[OldAtPosition(r.fiber)].hooks.state = <<1>>
          /\ fibers[r.fiber].hooks.state = <<0, 1>>

\* The index of fiber f in the sequence tree, 0 if it is not there.
IndexIn(tree, f) ==
    IF \E i \in 1..Len(tree) : tree[i] = f
    THEN CHOOSE i \in 1..Len(tree) : tree[i] = f ELSE 0

\* The shape of the tree under root r among the fibers fs: in pre-order, the
\* type of each fiber and the place of its parent.
Shape(fs, r) ==
    [i \in 1..Len(TreeOf(fs, r)) |->
        [type |-> fs[TreeOf(fs, r)[i]].typeOf,
         parent |-> IndexIn(TreeOf(fs, r), fs[TreeOf(fs, r)[i]].parent)]]

\* C32: a commit of a tree that has the shape and the types of the tree it
\* replaces attaches nothing, detaches nothing and deletes nothing; every
\* fiber under the root is tagged UPDATE and keeps the host handle of its
\* alternate.
C32_SameTypesOnlyPatch ==
    [][(/\ commitCount' # commitCount /\ ~panicked'
        /\ currentRoot # Nil
        /\ Shape(fibers', currentRoot') = Shape(fibers', currentRoot)) =>
          /\ \A i \in 1..Len(commitLog') :
                commitLog'[i].op \notin {"attach", "detach"}
          /\ commitLog'[1].y = 0
          /\ \A f \in Members(TreeOf(fibers', currentRoot')) \ {currentRoot'} :
                /\ fibers'[f].effectTag = "UPDATE"
                /\ fibers'[f].alternate # Nil
                /\ fibers'[f].dom = fibers'[fibers'[f].alternate].dom]_vars

\* A commit has just replaced a tree by one of the same shape and types,
\* patching a host node.
C32_Witness ==
    /\ ~panicked /\ wipRoot = Nil /\ commitCount >= 2
    /\ Len(commitLog) >= 2 /\ commitLog[1].op = "commit"
    /\ commitLog[1].x = currentRoot
    /\ \E i \in 1..Len(commitLog) : commitLog[i].op = "patch"
    /\ Len(TreeOf(fibers, currentRoot)) >= 4
    /\ Shape(fibers, currentRoot) = Shape(fibers, fibers[currentRoot].alternate)

\* The step is a workLoop invocation that found neither a work-in-progress
\* root nor a next unit of work.
IdleInvocation ==
    /\ wipRoot = Nil /\ nextUnitOfWork = Nil
    /\ pass'.root = pass.root
    /\ pass'.invocations = pass.invocations + 1

\* C33: a step commits at most once, the root it commits was never committed
\* before and, unless the commit panics, is the current root and no longer
\* the work-in-progress root afterwards; and a
\* workLoop invocation that finds no work-in-progress root and no next unit
\* of work only consumes its idle callback.
C33_CommitAtMostOnce ==
    [][/\ commitCount' \in {commitCount, commitCount + 1}
       /\ commitCount' # commitCount =>
             /\ commitLog'[1].x \notin CommittedRoots
             /\ ~panicked' => /\ currentRoot' = commitLog'[1].x
                              /\ wipRoot' # commitLog'[1].x
       /\ IdleInvocation =>
             /\ pending' = pending - 1
             /\ UNCHANGED <<fibers, wipRoot, currentRoot, nextUnitOfWork,
                            deletions, wipFiber, hostChildren, hostProps,
                            released, panicked, commitCount, commitLog,
                            passes>>]_vars

\* An idle callback has been delivered after the commit of the pass, with
\* nothing left to do.
C33_Witness ==
    /\ ~panicked /\ wipRoot = Nil /\ nextUnitOfWork = Nil
    /\ currentRoot # Nil /\ commitCount >= 2
    /\ pass.commits = 1 /\ pass.invocations > pass.commitAt

\* Nothing is left to do: no pass in progress, no idle callback requested,
\* and the pass started last has been committed.
Quiescent ==
    /\ wipRoot = Nil /\ nextUnitOfWork = Nil /\ pending = 0
    /\ rendered => (currentRoot = pass.root /\ pass.commits = 1)

\* C34: when every requested idle callback is delivered, whatever units each
\* invocation has time for, the program ends up quiescent for good unless it
\* has panicked.
C34_EventuallyQuiescent == <>[](panicked \/ Quiescent)

\* The program is quiescent after a pass that took several workLoop
\* invocations.
C34_Witness ==
    /\ ~panicked /\ Quiescent /\ rendered
    /\ pass.commitAt >= 2

\* The host handles of the nearest fibers with a handle on the sibling chain
\* that starts at fiber f and below it, in child/sibling order.
RECURSIVE NearestHandles(_)
NearestHandles(f) ==
    IF f = Nil THEN <<>>
    ELSE (IF fibers[f].dom # Nil THEN <<fibers[f].dom>>
          ELSE NearestHandles(fibers[f].child))
         \o NearestHandles(fibers[f].sibling)

\* C35: the host children of every fiber of the committed tree that has a
\* host handle are the handles of its nearest descendants with a handle, in
\* fiber order.
C35_HostMirrorsTree ==
    (~panicked /\ currentRoot # Nil) =>
        \A f \in CurrentTree :
            fibers[f].dom # Nil =>
                hostChildren[fibers[f].dom] = NearestHandles(fibers[f].child)

\* C36: when the last setter call passed a value other than the one the
\* committed render of its component held, and one commit has followed, the
\* committed render of that component started with the value passed.
C36_NoLostUpdate ==
    (/\ ~panicked /\ lastCall.fiber # Nil
     /\ lastCall.committed # NoVal
     /\ lastCall.value # lastCall.committed
     /\ commitCount = lastCall.at + 1) =>
        \A g \in CommittedFiber(lastCall.fiber) :
            \E r \in started :
                /\ r.fiber = g
                /\ lastCall.pos < Len(r.state)
                /\ r.state[lastCall.pos + 1] = lastCall.value

\* C37: once a component fiber has made its hook calls, every cursor
\* position at which it called useState is a slot of its state array, so
\* that the getter and the setter returned there stay in range.
C37_StateSlotsInRange ==
    \A f \in DOMAIN fibers :
        (IsFunc(fibers[f].typeOf) /\ ~fibers[f].hooks.nil
         /\ fibers[f].hooks.index = Len(Components[fibers[f].typeOf].hooks)) =>
            \A k \in StatePositions(fibers[f].typeOf) : InRange(State, f, k)

\* C38: whenever a setter call has changed a value, and so has run
\* scheduleUpdate, there was a committed root to build the new root from.
C38_CurrentWhenScheduled == sets.n > 0 => sets.base # Nil

\* C39: no commit has called removeChild with a handle that was not a child
\* of the parent handle it was called on.
C39_DetachValid ==
    \A i \in 1..Len(commitLog) : commitLog[i].op # "invalid"

====
